---- MODULE Spec2Model ----
(***************************************************************************)
(* google_dork_cli: the multi-backend search clients of                    *)
(* src/google_dork_cli.py (GoogleDorkClient) and src/advanced.py           *)
(* (AdvancedGoogleDorkClient with ProxyRotation and CacheManager).         *)
(*                                                                         *)
(* Strings the code inspects character by character (proxy URLs) are       *)
(* sequences of one-character strings.  Python's None is a tagged record   *)
(* or the string NoneStr, never confused with the empty string.            *)
(***************************************************************************)
EXTENDS Integers, Sequences, FiniteSets, TLC

VARIABLES
    \* ProxyRotation
    proxy_list,      \* self.proxy_list
    current_index,   \* self.current_index
    proxy_log,       \* what each get_next_proxy call returned (or raised), in call order
    list_changed,    \* load_from_file replaced the list after a get_next_proxy call
    \* CacheManager and the wall clock
    cache,           \* the cache directory: file name -> file content
    now,             \* datetime.now().timestamp(), whole seconds
    ticks,           \* how many times the clock has advanced
    n_sets,          \* CacheManager.set calls made
    last_set,        \* per query: the latest CacheManager.set call and how its write went
    last_get,        \* the latest CacheManager.get call, while no later set wrote its file
    \* main / the client
    client,          \* "basic" (google_dork_cli.py) or "advanced" (advanced.py)
    engine,          \* --engine
    bing_api_key,    \* bing_config['api_key'] as resolved
    brave_api_key,   \* brave_config['api_key'] as resolved
    searxng_endpoint, \* searxng_config['endpoint'] as resolved, then self.searxng_endpoint
    use_cache,       \* --cache
    delay,           \* --delay
    queries,         \* the effective queries
    pc,              \* where the run is
    qi,              \* index of the query being processed
    ret,             \* the value search() is about to return
    all_results,     \* search_multiple's dict, in insertion order
    \* observation of one run
    events,          \* what the processing of the current query has done so far, in order
    trace,           \* what search() returned for each processed occurrence, in order
    did,             \* which kinds of effect the run has had so far
    \* one adapter call on one response body
    candidates,      \* the candidate items of the body, in order
    \* resolve_*_config
    environ,         \* os.environ: the backend's API-key and endpoint variables
    config_file,     \* config.json: the backend's "api_key" and "endpoint" values
    resolved,        \* the dict resolve_*_config returned
    client_endpoint, \* self.<backend>_endpoint of the client __init__ built
    \* main's input file and output files
    file_lines,      \* the lines of --file
    target,          \* --target
    out_dir,         \* the output files written so far, in order
    runs             \* runs of main started

proxyVars == <<proxy_list, current_index, proxy_log, list_changed>>
cacheVars == <<cache, now, ticks, n_sets, last_set, last_get>>
runVars == <<client, engine, bing_api_key, brave_api_key, searxng_endpoint, use_cache, delay, queries,
             pc, qi, ret, all_results, events, trace, did>>
adapterVars == <<candidates>>
configVars == <<environ, config_file, resolved, client_endpoint>>
outVars == <<file_lines, target, out_dir, runs>>
otherVars == <<adapterVars, configVars, outVars>>
vars == <<proxyVars, cacheVars, runVars, otherVars>>

----------------------------------------------------------------------------
(* Bounds of the model *)

MaxProxies == 2      \* longest proxy list drawn
MaxCalls == 4        \* get_next_proxy calls followed in SpecProxy
MaxFileLines == 2    \* longest proxy file drawn
MaxTicks == 2        \* clock advances followed
MaxSets == 2         \* CacheManager.set calls followed in SpecCache

----------------------------------------------------------------------------
(* Character strings *)

HTTP == <<"h", "t", "t", "p", ":", "/", "/">>
HTTPS == <<"h", "t", "t", "p", "s", ":", "/", "/">>
SOCKS5 == <<"s", "o", "c", "k", "s", "5", ":", "/", "/">>

\* str.startswith(prefix)
StartsWith(s, prefix) ==
    /\ Len(s) >= Len(prefix)
    /\ SubSeq(s, 1, Len(prefix)) = prefix

IsSpace(c) == c \in {" ", "\t", "\n"}

\* str.strip(): leading and trailing whitespace removed
RECURSIVE LStrip(_)
LStrip(s) ==
    IF s # <<>> /\ IsSpace(Head(s)) THEN LStrip(Tail(s)) ELSE s

RECURSIVE RStrip(_)
RStrip(s) ==
    IF s # <<>> /\ IsSpace(s[Len(s)]) THEN RStrip(SubSeq(s, 1, Len(s) - 1)) ELSE s

Strip(s) == RStrip(LStrip(s))

\* all sequences over S of length lo..hi
SeqsOf(S, lo, hi) == UNION {[1..n -> S] : n \in lo..hi}

\* sub in s
Contains(s, sub) ==
    \E k \in 0..(Len(s) - Len(sub)) : SubSeq(s, k + 1, k + Len(sub)) = sub

\* s.find of the first character that is in chars, from 1; 0 when there is none
IndexOf(s, chars) ==
    IF \E k \in 1..Len(s) : s[k] \in chars
    THEN CHOOSE k \in 1..Len(s) :
            /\ s[k] \in chars
            /\ \A j \in 1..(k - 1) : s[j] \notin chars
    ELSE 0

Letters == {"a", "b", "c", "d", "e", "f", "g", "h", "i", "j", "k", "l", "m",
            "n", "o", "p", "q", "r", "s", "t", "u", "v", "w", "x", "y", "z"}
Digits == {"0", "1", "2", "3", "4", "5", "6", "7", "8", "9"}
SchemeChars == Letters \cup Digits \cup {"+", "-", "."}

\* urllib.parse.urlsplit: the text after "scheme:", or the whole text when it
\* has no scheme
AfterScheme(url) ==
    LET i == IndexOf(url, {":"}) IN
    IF i > 1 /\ url[1] \in Letters /\ \A k \in 1..(i - 1) : url[k] \in SchemeChars
    THEN SubSeq(url, i + 1, Len(url))
    ELSE url

\* _splitnetloc(url, 2): from after "//" up to the first of "/", "?", "#"
SplitNetloc(rest) ==
    LET after == SubSeq(rest, 3, Len(rest))
        delim == IndexOf(after, {"/", "?", "#"})
    IN IF delim = 0 THEN after ELSE SubSeq(after, 1, delim - 1)

\* urlparse(url): its netloc, or that it raises ValueError ("Invalid IPv6
\* URL": one square bracket in the netloc without the other)
Urlparse(url) ==
    LET rest == AfterScheme(url)
        netloc == IF StartsWith(rest, <<"/", "/">>) THEN SplitNetloc(rest) ELSE <<>>
        open == \E k \in 1..Len(netloc) : netloc[k] = "["
        close == \E k \in 1..Len(netloc) : netloc[k] = "]"
    IN [raised |-> open # close, netloc |-> netloc]

----------------------------------------------------------------------------
(* ProxyRotation, src/advanced.py *)

\* proxies a list may hold: with and without a scheme
ProxyPool == {HTTP \o <<"a">>, <<"b">>, SOCKS5 \o <<"c">>}

\* lines a proxy file may hold, as iterating the file yields them: blank,
\* padded, plain
FileLinePool == {<<"\n">>, <<" ", "b", "\n">>, HTTPS \o <<"d", "\n">>}

HasScheme(proxy_url) ==
    \/ StartsWith(proxy_url, HTTP)
    \/ StartsWith(proxy_url, HTTPS)
    \/ StartsWith(proxy_url, SOCKS5)

\* _parse_proxy: the URL both entries of the returned dict hold
ParseProxy(proxy_url) ==
    IF HasScheme(proxy_url) THEN proxy_url ELSE HTTP \o proxy_url

NoProxy == [kind |-> "None", url |-> <<>>]
ProxyDict(url) == [kind |-> "proxy", url |-> url]
ProxyIndexError == [kind |-> "IndexError", url |-> <<>>]

\* the cursor without the wrap-around
AdvanceNoWrap(index, n) == index + 1

\* the cursor a successful get_next_proxy leaves behind

AdvanceCursor(index, n) == (index + 1) % n

\* a get_next_proxy that hands out the proxy at the cursor and leaves the cursor
GetNextProxyPeek(list, index) ==
    IF list = <<>>
    THEN [out |-> NoProxy, index |-> index]
    ELSE IF index + 1 > Len(list)
         THEN [out |-> ProxyIndexError, index |-> index]
         ELSE [out |-> ProxyDict(ParseProxy(list[index + 1])), index |-> index]

\* get_next_proxy: the value returned (or the IndexError raised) and the new cursor
GetNextProxy(list, index) ==
    IF list = <<>>
    THEN [out |-> NoProxy, index |-> index]
    ELSE IF index + 1 > Len(list)
         THEN [out |-> ProxyIndexError, index |-> index]
         ELSE [out |-> ProxyDict(ParseProxy(list[index + 1])),
               index |-> AdvanceCursor(index, Len(list))]

\* load_from_file's list comprehension: stripped non-empty lines, in file order
RECURSIVE StrippedLines(_)
StrippedLines(lines) ==
    IF lines = <<>> THEN <<>>
    ELSE IF Strip(Head(lines)) # <<>>
         THEN <<Strip(Head(lines))>> \o StrippedLines(Tail(lines))
         ELSE StrippedLines(Tail(lines))

\* the proxy files drawn, and the lists load_from_file makes of them
ProxyFiles == SeqsOf(FileLinePool, 0, MaxFileLines)
LoadedLists == {StrippedLines(lines) : lines \in ProxyFiles}

----------------------------------------------------------------------------
(* CacheManager, src/advanced.py *)

TTL == 86400

QuerySet == {"q1", "q2"}

\* hashlib.md5(query.encode()).hexdigest() of the queries of the model
Md5Hex(query) ==
    CASE query = "q1" -> "ff33f1b12213e021c2c4a888141953ba"
      [] query = "q2" -> "74d502a7131cdac90eecdfb0531c4e87"

\* get_cache_file: the file name under the cache directory
GetCacheFile(query) == <<Md5Hex(query), ".json">>

CacheFiles == {GetCacheFile(q) : q \in QuerySet}

\* one search result as the advanced adapters build it
Result(title, url, snippet, domain) ==
    [title |-> title, url |-> url, snippet |-> snippet, domain |-> domain]

EXAMPLE_ORG == <<"e", "x", "a", "m", "p", "l", "e", ".", "o", "r", "g">>

\* "http://sub.example.org/path" and "https://example.org/.env"
URL_A == HTTP \o <<"s", "u", "b", ".">> \o EXAMPLE_ORG \o <<"/", "p", "a", "t", "h">>
URL_B == HTTPS \o EXAMPLE_ORG \o <<"/", ".", "e", "n", "v">>

ResultA == Result("Index of /", URL_A, "N/A", Urlparse(URL_A).netloc)
ResultB == Result("env", URL_B, "DB_PASSWORD", Urlparse(URL_B).netloc)

\* json.dump / json.load of a result list: each dict becomes an object, a
\* sequence of <<key, value>> members in insertion order, and back
KeyOrder == <<"title", "url", "snippet", "domain">>

RECURSIVE Members(_, _)
Members(dict, keys) ==
    IF keys = <<>> THEN <<>>
    ELSE IF Head(keys) \in DOMAIN dict
         THEN <<<<Head(keys), dict[Head(keys)]>>>> \o Members(dict, Tail(keys))
         ELSE Members(dict, Tail(keys))

JsonDump(results) == [k \in 1..Len(results) |-> Members(results[k], KeyOrder)]

ObjectToDict(members) ==
    [key \in {members[k][1] : k \in 1..Len(members)} |->
        (CHOOSE k \in 1..Len(members) :
            /\ members[k][1] = key
            /\ \A j \in (k + 1)..Len(members) : members[j][1] # key) ]

JsonObject(members) ==
    LET pos == ObjectToDict(members) IN [key \in DOMAIN pos |-> members[pos[key]][2]]

JsonLoad(text) == [k \in 1..Len(text) |-> JsonObject(text[k])]

\* the contents of one cache file
AbsentFile == [kind |-> "absent", query |-> "", results |-> <<>>, timestamp |-> 0]
CorruptFile == [kind |-> "corrupt", query |-> "", results |-> <<>>, timestamp |-> 0]
EntryFile(query, results, timestamp) ==
    [kind |-> "entry", query |-> query, results |-> JsonDump(results),
     timestamp |-> timestamp]

None == [some |-> FALSE, val |-> <<>>]
Some(v) == [some |-> TRUE, val |-> v]

\* the freshness test with the boundary included
IsFreshInclusive(t, timestamp) == t - timestamp <= TTL

\* the freshness test of CacheManager.get
IsFresh(t, timestamp) == t - timestamp < TTL

\* a get that takes an empty stored list for a miss
CacheGetTruthy(files, query, t, read_ok) ==
    LET file == files[GetCacheFile(query)] IN
    IF file.kind # "entry" \/ ~read_ok THEN None
    ELSE IF IsFresh(t, file.timestamp) /\ file.results # <<>>
         THEN Some(JsonLoad(file.results))
         ELSE None

\* CacheManager.get: read_ok is whether open() and read() of an existing file work
CacheGet(files, query, t, read_ok) ==
    LET file == files[GetCacheFile(query)] IN
    IF file.kind = "absent" THEN None
    ELSE IF ~read_ok \/ file.kind = "corrupt" THEN None
    ELSE IF IsFresh(t, file.timestamp) THEN Some(JsonLoad(file.results))
    ELSE None

\* a get that purges the entry it finds stale
FilesAfterGetPurging(files, query, t) ==
    LET file == files[GetCacheFile(query)] IN
    IF file.kind = "entry" /\ ~IsFresh(t, file.timestamp)
    THEN [files EXCEPT ![GetCacheFile(query)] = AbsentFile]
    ELSE files

\* CacheManager.get opens the file for reading only: the directory is as it was
FilesAfterGet(files, query, t) == files

\* a hit test that asks whether get returned a list at all
CachedIsNotNone(cached) == cached.some

\* search(): `if cached:`, true of a non-empty list only
CachedIsHit(cached) == cached.some /\ cached.val # <<>>

\* how a write may go: done, open() refused (file untouched), or failed after
\* open() truncated the file
WriteOutcomes == {"ok", "open_failed", "partial"}

\* what a lost write leaves in a file it never opened
FileAfterWriteDropped(old, query, results, t, outcome) == old

\* what CacheManager.set leaves in the file
FileAfterWrite(old, query, results, t, outcome) ==
    CASE outcome = "ok" -> EntryFile(query, results, t)
      [] outcome = "open_failed" -> old
      [] outcome = "partial" -> CorruptFile

\* a set that lets its write errors out
SetCatchesNothing(outcome) == FALSE

\* CacheManager.set: `except Exception`, which logs and returns
SetCatches(outcome) == TRUE

\* a set that does not store an empty list
CacheSetNonEmpty(files, query, results, t, outcome) ==
    IF results = <<>> THEN files
    ELSE [files EXCEPT ![GetCacheFile(query)] =
             FileAfterWrite(@, query, results, t, outcome)]

\* CacheManager.set
CacheSet(files, query, results, t, outcome) ==
    [files EXCEPT ![GetCacheFile(query)] =
        FileAfterWrite(@, query, results, t, outcome)]

\* seconds the clock may jump by
TickSteps == {1, TTL - 1}

NoSet == [called |-> FALSE, results |-> <<>>, at |-> 0, outcome |-> "none"]
NoGet == [called |-> FALSE, query |-> "", out |-> None, at |-> 0, read_ok |-> TRUE,
          modified |-> FALSE]

----------------------------------------------------------------------------
(* Parts of the state a specification does not use *)

ProxyIdle ==
    /\ proxy_list = <<>>
    /\ current_index = 0
    /\ proxy_log = <<>>
    /\ list_changed = FALSE

CacheIdle ==
    /\ cache = [f \in CacheFiles |-> AbsentFile]
    /\ now = 0
    /\ ticks = 0
    /\ n_sets = 0
    /\ last_set = [q \in QuerySet |-> NoSet]
    /\ last_get = NoGet

RunIdle ==
    /\ client = "none"
    /\ engine = "none"
    /\ bing_api_key = "None"
    /\ brave_api_key = "None"
    /\ searxng_endpoint = "None"
    /\ use_cache = FALSE
    /\ delay = 0
    /\ queries = <<>>
    /\ pc = "idle"
    /\ qi = 0
    /\ ret = <<>>
    /\ all_results = <<>>
    /\ events = <<>>
    /\ trace = <<>>
    /\ did = {}

AdapterIdle == candidates = <<>>

ConfigIdle ==
    /\ environ = <<>>
    /\ config_file = <<>>
    /\ resolved = <<>>
    /\ client_endpoint = <<>>

OutputIdle ==
    /\ file_lines = <<>>
    /\ target = None
    /\ out_dir = <<>>
    /\ runs = 0

OtherIdle == AdapterIdle /\ ConfigIdle /\ OutputIdle

----------------------------------------------------------------------------
(* SpecProxy: a ProxyRotation object under any sequence of its operations *)

\* ProxyRotation(proxy_list): proxy_list or []
InitProxy ==
    /\ proxy_list \in SeqsOf(ProxyPool, 0, MaxProxies)
    /\ current_index = 0
    /\ proxy_log = <<>>
    /\ list_changed = FALSE
    /\ CacheIdle
    /\ RunIdle
    /\ OtherIdle

ProxyGetNext ==
    /\ Len(proxy_log) < MaxCalls
    /\ LET r == GetNextProxy(proxy_list, current_index) IN
        /\ current_index' = r.index
        /\ proxy_log' = Append(proxy_log, r.out)
    /\ UNCHANGED <<otherVars, proxy_list, list_changed, cacheVars, runVars>>

\* load_from_file: on success the list is replaced and the cursor kept; a
\* file that cannot be opened leaves the list as it was
ProxyLoadFromFile ==
    /\ \/ /\ proxy_list' \in LoadedLists
          /\ list_changed' = (list_changed \/ proxy_log # <<>>)
       \/ UNCHANGED <<proxy_list, list_changed>>
    /\ UNCHANGED <<otherVars, current_index, proxy_log, cacheVars, runVars>>

NextProxy == ProxyGetNext \/ ProxyLoadFromFile

SpecProxy == InitProxy /\ [][NextProxy]_vars

----------------------------------------------------------------------------
(* SpecCache: a CacheManager under any sequence of set, get and clock advance *)

ResultLists == {<<>>, <<ResultA>>, <<ResultB, ResultA>>}

InitCache ==
    /\ CacheIdle
    /\ ProxyIdle
    /\ RunIdle
    /\ OtherIdle

CacheSetCall ==
    /\ n_sets < MaxSets
    /\ n_sets' = n_sets + 1
    /\ \E q \in QuerySet, r \in ResultLists, outcome \in WriteOutcomes :
        /\ cache' = CacheSet(cache, q, r, now, outcome)
        /\ last_set' = [last_set EXCEPT ![q] =
              [called |-> TRUE, results |-> r, at |-> now, outcome |-> outcome]]
        /\ last_get' = IF last_get.query = q THEN NoGet ELSE last_get
    /\ UNCHANGED <<otherVars, now, ticks, proxyVars, runVars>>

CacheGetCall ==
    /\ \E q \in QuerySet, read_ok \in BOOLEAN :
        /\ cache' = FilesAfterGet(cache, q, now)
        /\ last_get' = [called |-> TRUE, query |-> q,
                         out |-> CacheGet(cache, q, now, read_ok), at |-> now,
                         read_ok |-> read_ok, modified |-> (cache' # cache)]
    /\ UNCHANGED <<otherVars, now, ticks, n_sets, last_set, proxyVars, runVars>>

Tick ==
    /\ ticks < MaxTicks
    /\ \E d \in TickSteps : now' = now + d
    /\ ticks' = ticks + 1
    /\ UNCHANGED <<otherVars, cache, n_sets, last_set, last_get, proxyVars, runVars>>

NextCache == CacheSetCall \/ CacheGetCall \/ Tick

SpecCache == InitCache /\ [][NextCache]_vars

----------------------------------------------------------------------------
(* Configuration, src/advanced.py and src/google_dork_cli.py *)

\* Optional[str] values: None, the empty string, a value
NoneStr == "None"
KeyVals == {NoneStr, "", "secret"}
EndpointVals == {NoneStr, "", "http://searx.local"}
DEFAULT_SEARXNG_ENDPOINT == "http://localhost:8080"

\* Python truthiness of an Optional[str]
Truthy(s) == s # NoneStr /\ s # ""

\* os.getenv(NAME) or get_config_value(config, [backend, "api_key"])
ResolveApiKey(env, cfg) == IF Truthy(env) THEN env ELSE cfg

\* a resolver without the second test: what `or` and get_config_value's
\* default leave
ResolveEndpointOnce(env, cfg, default) ==
    IF Truthy(env) THEN env
    ELSE IF cfg = NoneStr THEN default ELSE cfg

\* os.getenv(NAME) or get_config_value(config, [backend, "endpoint"], DEFAULT),
\* then the default again when that is falsy; cfg is NoneStr when the key is absent
ResolveEndpoint(env, cfg, default) ==
    LET first == IF Truthy(env) THEN env
                 ELSE IF cfg = NoneStr THEN default ELSE cfg
    IN IF Truthy(first) THEN first ELSE default

\* __init__: searxng_endpoint or DEFAULT_SEARXNG_ENDPOINT
InitEndpoint(endpoint, default) == IF Truthy(endpoint) THEN endpoint ELSE default

Clients == {"basic", "advanced"}

\* click.Choice of --engine in each program
EnginesOf(c) ==
    IF c = "basic" THEN {"google", "bing", "duckduckgo", "searxng"}
    ELSE {"google", "bing", "brave", "duckduckgo", "searxng"}

\* an engine name click.Choice does not offer, which only a caller of the
\* class can pass
LibraryEngines(c) == IF c = "advanced" THEN {"yahoo"} ELSE {}

JsonEngines == {"bing", "brave", "searxng"}

\* a check that knows of the Bing key only
ConfigMissingBingOnly(c, e, bing_key, brave_key, searx_endpoint) ==
    e = "bing" /\ ~Truthy(bing_key)

\* main's checks between resolving the configuration and building the client
ConfigMissing(c, e, bing_key, brave_key, searx_endpoint) ==
    \/ e = "bing" /\ ~Truthy(bing_key)
    \/ c = "advanced" /\ e = "brave" /\ ~Truthy(brave_key)
    \/ e = "searxng" /\ ~Truthy(searx_endpoint)

\* a key test that lets the empty string through
KeyAbsentNoneOnly(key) == key = NoneStr

\* `if not self.bing_api_key` / `if not self.brave_api_key`
KeyAbsent(key) == ~Truthy(key)

\* the first lines of each adapter: whether it returns [] before its try block
AdapterShortCircuits(e, bing_key, brave_key, searx_endpoint) ==
    \/ e = "bing" /\ KeyAbsent(bing_key)
    \/ e = "brave" /\ KeyAbsent(brave_key)
    \/ e = "searxng" /\ ~Truthy(searx_endpoint)

\* search(): the adapter the engine name selects
AdapterOf(c, e) ==
    IF e = "bing" THEN "_search_bing"
    ELSE IF c = "advanced" /\ e = "brave" THEN "_search_brave"
    ELSE IF e = "duckduckgo" THEN "_search_duckduckgo"
    ELSE IF e = "searxng" THEN "_search_searxng"
    ELSE "_search_google"

----------------------------------------------------------------------------
(* Backend adapters *)

MaxItems == 2        \* most items in one response
MaxQueries == 2      \* most queries in one batch

\* what the server may send back for one session.get
\*   transport: the request or raise_for_status() raises a RequestException
\*   badjson:   response.json() cannot decode the body
\*   badshape:  the JSON value is not an object (data.get raises AttributeError)
\*   ok:        a body with a list of candidate items
\* One candidate item is
\*   object:    a JSON item that is an object (item.get works); HTML elements
\*              always are
\*   has_title: the element holds an <h3> (google)
\*   has_link:  the element holds an <a> (google), an a.result__a (duckduckgo)
\*   url:       item.get('url', '') / link.get('href', '')
Item(object, has_title, has_link, url) ==
    [object |-> object, has_title |-> has_title, has_link |-> has_link, url |-> url]

HTTP_PREFIX == <<"h", "t", "t", "p">>
GOOGLE_COM == <<"g", "o", "o", "g", "l", "e", ".", "c", "o", "m">>

\* "http://[b": starts with http and makes urlparse raise ValueError
URL_BAD == HTTP \o <<"[", "b">>

ItemOk == Item(TRUE, TRUE, TRUE, URL_A)
ItemNotDict == Item(FALSE, FALSE, FALSE, <<>>)
ItemBadUrl == Item(TRUE, TRUE, TRUE, URL_BAD)

\* the items of the responses of a run: a well-formed one, one that is not an
\* object, one with an unparsable URL (the basic client never calls urlparse,
\* so there it is an item like any other)
ItemPool(c, e) ==
    {ItemOk} \cup (IF e \in JsonEngines THEN {ItemNotDict} ELSE {})
             \cup (IF c = "advanced" THEN {ItemBadUrl} ELSE {})

Responses(c, e) ==
    {[kind |-> "transport", items |-> <<>>]}
    \cup (IF e \in JsonEngines
          THEN {[kind |-> "badjson", items |-> <<>>], [kind |-> "badshape", items |-> <<>>]}
          ELSE {})
    \cup {[kind |-> "ok", items |-> items] : items \in SeqsOf(ItemPool(c, e), 0, MaxItems)}

\* results of the basic client carry no domain
BasicResult(title, url, snippet) == [title |-> title, url |-> url, snippet |-> snippet]

\* the record an adapter appends for an item it keeps; the advanced client
\* adds urlparse(url_str).netloc, '' for an empty url_str
ResultOf(c, item) ==
    IF c = "advanced"
    THEN Result(ResultA.title, item.url, ResultA.snippet,
                IF item.url # <<>> THEN Urlparse(item.url).netloc ELSE <<>>)
    ELSE BasicResult(ResultA.title, item.url, ResultA.snippet)

\* _search_google: `if title_elem and link_elem` and `if url_str and
\* 'google.com' not in url_str and url_str.startswith('http')`
GoogleKeeps(item) ==
    /\ item.has_title
    /\ item.has_link
    /\ item.url # <<>>
    /\ ~Contains(item.url, GOOGLE_COM)
    /\ StartsWith(item.url, HTTP_PREFIX)

\* _search_duckduckgo: `if not link: continue` and `if url_str and
\* url_str.startswith('http')`
DuckDuckGoKeeps(item) ==
    /\ item.has_link
    /\ item.url # <<>>
    /\ StartsWith(item.url, HTTP_PREFIX)

\* the advanced client calls urlparse on the URL of an item it keeps
UrlparseRaises(c, item) == c = "advanced" /\ item.url # <<>> /\ Urlparse(item.url).raised

\* what handling one item does: "append", "skip", or the exception it raises
\* out of the loop
ItemEffect(c, e, item) ==
    LET adapter == AdapterOf(c, e) IN
    CASE adapter \in {"_search_bing", "_search_brave", "_search_searxng"} ->
            IF ~item.object THEN "AttributeError"
            ELSE IF UrlparseRaises(c, item) THEN "ValueError"
            ELSE "append"
      [] adapter = "_search_duckduckgo" ->
            IF ~DuckDuckGoKeeps(item) THEN "skip"
            ELSE IF UrlparseRaises(c, item) THEN "ValueError"
            ELSE "append"
      [] adapter = "_search_google" ->
            IF ~GoogleKeeps(item) THEN "skip"
            ELSE IF UrlparseRaises(c, item) THEN "skip"    \* inner try/except: continue
            ELSE "append"

\* the loop over the items: the results appended so far and the exception
\* that ended the loop, if any
RECURSIVE ProcessItems(_, _, _, _)
ProcessItems(c, e, items, results) ==
    IF items = <<>> THEN [results |-> results, exc |-> "none"]
    ELSE LET eff == ItemEffect(c, e, Head(items)) IN
         CASE eff = "append" ->
                ProcessItems(c, e, Tail(items), Append(results, ResultOf(c, Head(items))))
           [] eff = "skip" -> ProcessItems(c, e, Tail(items), results)
           [] OTHER -> [results |-> results, exc |-> eff]

\* the exception, if any, that leaves the try block's body
BodyOutcome(c, e, resp) ==
    CASE resp.kind = "transport" -> [results |-> <<>>, exc |-> "RequestException"]
      [] resp.kind = "badjson" -> [results |-> <<>>, exc |-> "JSONDecodeError"]
      [] resp.kind = "badshape" -> [results |-> <<>>, exc |-> "AttributeError"]
      [] resp.kind = "ok" -> ProcessItems(c, e, resp.items, <<>>)

\* an except clause that catches everything in both clients
CatchesAll(c, exc, json_is_request_exc) == TRUE

\* the adapter's except clause: `except Exception` in advanced.py,
\* `except requests.exceptions.RequestException` in google_dork_cli.py;
\* json_is_request_exc is whether the installed requests derives its
\* JSONDecodeError from RequestException
Catches(c, exc, json_is_request_exc) ==
    \/ c = "advanced"
    \/ exc = "RequestException"
    \/ exc = "JSONDecodeError" /\ json_is_request_exc

\* the adapter after its request: what it returns, or that it raises, and the
\* exception that occurred in it
RunAdapter(c, e, resp, json_is_request_exc) ==
    LET body == BodyOutcome(c, e, resp) IN
    IF body.exc = "none" THEN [raised |-> FALSE, results |-> body.results, exc |-> "none"]
    ELSE IF Catches(c, body.exc, json_is_request_exc)
         THEN [raised |-> FALSE,
               results |-> IF c = "advanced" THEN body.results ELSE <<>>,
               exc |-> body.exc]
         ELSE [raised |-> TRUE, results |-> <<>>, exc |-> body.exc]

----------------------------------------------------------------------------
(* search_multiple's dict, kept in insertion order as <<key, value>> pairs *)

DictKeys(d) == {d[k][1] : k \in 1..Len(d)}

DictGet(d, key) == d[CHOOSE k \in 1..Len(d) : d[k][1] = key][2]

\* an assignment that keeps the first value of a key
DictSetDefault(d, key, value) ==
    IF key \in DictKeys(d) THEN d ELSE Append(d, <<key, value>>)

\* d[key] = value
DictSet(d, key, value) ==
    IF key \in DictKeys(d)
    THEN [k \in 1..Len(d) |-> IF d[k][1] = key THEN <<key, value>> ELSE d[k]]
    ELSE Append(d, <<key, value>>)

----------------------------------------------------------------------------
(* Spec: one run of either program, or of either client built by a caller *)

\* --delay and random.uniform(0, 1), in milliseconds
JitterMaxMs == 1000
DelayChoices == {2000}
JitterChoices == {0, JitterMaxMs}

MainProxyLists == {<<>>, <<<<"b">>, HTTP \o <<"a">>>>}

\* the cache directory a run may find: empty, or holding for q1 an entry
\* written TTL seconds before the run (the run itself is short against TTL)
StartDirs ==
    {[f \in CacheFiles |-> AbsentFile],
     [f \in CacheFiles |-> IF f = GetCacheFile("q1")
                           THEN EntryFile("q1", <<ResultA>>, 0) ELSE AbsentFile]}

Event(type, ms, err) == [type |-> type, ms |-> ms, err |-> err]

\* time.sleep of a query that skips it
SleepEventsNone(ms) == <<>>

\* time.sleep(self.delay + random.uniform(0, 1))
SleepEvents(ms) == <<Event("sleep", ms, "none")>>

Init ==
    /\ client \in Clients
    /\ engine \in EnginesOf(client) \cup LibraryEngines(client)
    /\ bing_api_key \in
          IF engine = "bing" THEN {ResolveApiKey(env, cfg) : env, cfg \in KeyVals}
          ELSE {NoneStr}
    /\ brave_api_key \in
          IF engine = "brave" THEN {ResolveApiKey(env, cfg) : env, cfg \in KeyVals}
          ELSE {NoneStr}
    /\ searxng_endpoint \in
          IF engine = "searxng"
          THEN {ResolveEndpoint(env, cfg, DEFAULT_SEARXNG_ENDPOINT) :
                    env, cfg \in EndpointVals}
          ELSE {DEFAULT_SEARXNG_ENDPOINT}
    /\ use_cache \in (IF client = "advanced" THEN BOOLEAN ELSE {FALSE})
    /\ delay \in DelayChoices
    /\ queries \in {qs \in SeqsOf(QuerySet, 1, MaxQueries) : qs[1] = "q1"}
    /\ pc = "start"
    /\ qi = 0
    /\ ret = <<>>
    /\ all_results = <<>>
    /\ events = <<>>
    /\ trace = <<>>
    /\ did = {}
    /\ ProxyIdle
    /\ now = TTL
    /\ cache \in (IF use_cache THEN StartDirs ELSE {[f \in CacheFiles |-> AbsentFile]})
    /\ ticks = 0
    /\ n_sets = 0
    /\ last_set = [q \in QuerySet |-> NoSet]
    /\ last_get = NoGet
    /\ OtherIdle

\* main from the configuration checks on: a missing credential ends the run
MainConfigCheck ==
    /\ pc = "start"
    /\ engine \in EnginesOf(client)
    /\ pc' = IF ConfigMissing(client, engine, bing_api_key, brave_api_key, searxng_endpoint)
             THEN "exit_config" ELSE "main_setup"
    /\ UNCHANGED <<otherVars, proxyVars, cacheVars, client, engine, bing_api_key, brave_api_key,
                   searxng_endpoint, use_cache, delay, queries, qi, ret, all_results,
                   events, trace, did>>

\* the client is built: by main after its checks (with the proxies --proxies
\* loaded), or by a caller of the class with the same arguments and no check;
\* CacheManager() makes the cache directory
Construct ==
    /\ pc \in {"start", "main_setup"}
    /\ pc' = "loop"
    /\ qi' = 1
    /\ proxy_list' \in (IF client = "advanced" THEN MainProxyLists ELSE {<<>>})
    /\ searxng_endpoint' = InitEndpoint(searxng_endpoint, DEFAULT_SEARXNG_ENDPOINT)
    /\ did' = IF use_cache THEN did \cup {"cache"} ELSE did
    /\ UNCHANGED <<otherVars, current_index, proxy_log, list_changed, cacheVars, client, engine,
                   bing_api_key, brave_api_key, use_cache, delay, queries, ret,
                   all_results, events, trace>>

Query == queries[qi]

\* advanced search(), lines 246-250: the cache check
BeginSearchAdvanced ==
    /\ pc = "loop"
    /\ client = "advanced"
    /\ qi <= Len(queries)
    /\ IF use_cache
       THEN \E read_ok \in BOOLEAN :
            LET cached == CacheGet(cache, Query, now, read_ok)
                file == cache[GetCacheFile(Query)]
                seen == IF file.kind = "absent" THEN "miss"
                        ELSE IF ~read_ok \/ file.kind = "corrupt" THEN "error"
                        ELSE IF now - file.timestamp < TTL THEN "fresh"
                        ELSE "miss"
            IN /\ events' = <<Event("cache_get", 0, seen)>>
               /\ cache' = FilesAfterGet(cache, Query, now)
               /\ IF CachedIsHit(cached)
                  THEN pc' = "assign" /\ ret' = cached.val
                  ELSE pc' = "sleep" /\ ret' = <<>>
       ELSE /\ events' = <<>>
            /\ pc' = "sleep"
            /\ ret' = <<>>
            /\ cache' = cache
    /\ UNCHANGED <<otherVars, proxyVars, now, ticks, n_sets, last_set, last_get, client, engine,
                   bing_api_key, brave_api_key, searxng_endpoint, use_cache, delay,
                   queries, qi, all_results, trace, did>>

\* basic search(): dispatch to the adapter, which may return [] at once
BeginSearchBasic ==
    /\ pc = "loop"
    /\ client = "basic"
    /\ qi <= Len(queries)
    /\ events' = <<Event("adapter", 0, AdapterOf(client, engine))>>
    /\ ret' = <<>>
    /\ pc' = IF AdapterShortCircuits(engine, bing_api_key, brave_api_key, searxng_endpoint)
             THEN "assign" ELSE "sleep"
    /\ UNCHANGED <<otherVars, proxyVars, cacheVars, client, engine, bing_api_key, brave_api_key,
                   searxng_endpoint, use_cache, delay, queries, qi, all_results, trace,
                   did>>

\* time.sleep(self.delay + random.uniform(0, 1)): in search() of the advanced
\* client, at the top of the try block of each adapter of the basic client
Sleep ==
    /\ pc = "sleep"
    /\ \E jitter \in JitterChoices :
          events' = events \o SleepEvents(delay + jitter)
    /\ did' = did \cup {"sleep"}
    /\ pc' = IF client = "advanced" THEN "dispatch" ELSE "request"
    /\ UNCHANGED <<otherVars, proxyVars, cacheVars, client, engine, bing_api_key, brave_api_key,
                   searxng_endpoint, use_cache, delay, queries, qi, ret, all_results,
                   trace>>

\* advanced search(), lines 255-264: dispatch to the adapter, which may
\* return [] at once
DispatchAdvanced ==
    /\ pc = "dispatch"
    /\ events' = Append(events, Event("adapter", 0, AdapterOf(client, engine)))
    /\ pc' = IF AdapterShortCircuits(engine, bing_api_key, brave_api_key, searxng_endpoint)
             THEN "store" ELSE "request"
    /\ UNCHANGED <<otherVars, proxyVars, cacheVars, client, engine, bing_api_key, brave_api_key,
                   searxng_endpoint, use_cache, delay, queries, qi, ret, all_results,
                   trace, did>>

\* the adapter's try block: the next proxy (advanced), session.get, parsing
Request ==
    /\ pc = "request"
    /\ LET p == IF client = "advanced" THEN GetNextProxy(proxy_list, current_index)
                ELSE [out |-> NoProxy, index |-> current_index]
       IN IF p.out.kind = "IndexError"
          THEN /\ events' = Append(events, Event("failed", 0, "IndexError"))
               /\ ret' = <<>>
               /\ pc' = "store"
               /\ UNCHANGED <<current_index, proxy_log, did>>
          ELSE \E resp \in Responses(client, engine), json_is_request_exc \in BOOLEAN :
               LET r == RunAdapter(client, engine, resp, json_is_request_exc) IN
               /\ current_index' = p.index
               /\ proxy_log' = IF client = "advanced" THEN Append(proxy_log, p.out)
                               ELSE proxy_log
               /\ events' = Append(events, Event("request", 0, r.exc))
               /\ did' = did \cup {"request"}
               /\ ret' = r.results
               /\ pc' = IF r.raised THEN "search_raised"
                        ELSE IF client = "advanced" THEN "store" ELSE "assign"
    /\ UNCHANGED <<otherVars, proxy_list, list_changed, cacheVars, client, engine, bing_api_key,
                   brave_api_key, searxng_endpoint, use_cache, delay, queries, qi,
                   all_results, trace>>

\* advanced search(), lines 266-269: the cache store
Store ==
    /\ pc = "store"
    /\ IF use_cache
       THEN \E outcome \in WriteOutcomes :
            /\ cache' = CacheSet(cache, Query, ret, now, outcome)
            /\ events' = Append(events, Event("cache_set", 0, outcome))
            /\ pc' = IF outcome = "ok" \/ SetCatches(outcome)
                     THEN "assign" ELSE "search_raised"
       ELSE /\ pc' = "assign"
            /\ UNCHANGED <<cache, events>>
    /\ UNCHANGED <<otherVars, proxyVars, now, ticks, n_sets, last_set, last_get, client, engine,
                   bing_api_key, brave_api_key, searxng_endpoint, use_cache, delay,
                   queries, qi, ret, all_results, trace, did>>

\* search_multiple: all_results[query] = self.search(query)
Assign ==
    /\ pc = "assign"
    /\ all_results' = DictSet(all_results, Query, ret)
    /\ trace' = Append(trace, <<Query, ret>>)
    /\ qi' = qi + 1
    /\ pc' = "loop"
    /\ ret' = <<>>
    /\ events' = <<>>
    /\ UNCHANGED <<otherVars, proxyVars, cacheVars, client, engine, bing_api_key, brave_api_key,
                   searxng_endpoint, use_cache, delay, queries, did>>

\* search_multiple returns all_results
Return ==
    /\ pc = "loop"
    /\ qi > Len(queries)
    /\ pc' = "returned"
    /\ UNCHANGED <<otherVars, proxyVars, cacheVars, client, engine, bing_api_key, brave_api_key,
                   searxng_endpoint, use_cache, delay, queries, qi, ret, all_results,
                   events, trace, did>>

\* main: save_to_csv, inside try/except in google_dork_cli.py only
SaveCsv ==
    /\ pc = "returned"
    /\ \E written \in BOOLEAN :
        /\ did' = did \cup {"csv_attempt"} \cup (IF written THEN {"csv"} ELSE {})
        /\ pc' = IF written \/ client = "basic" THEN "save_json" ELSE "save_raised"
    /\ UNCHANGED <<otherVars, proxyVars, cacheVars, client, engine, bing_api_key, brave_api_key,
                   searxng_endpoint, use_cache, delay, queries, qi, ret, all_results,
                   events, trace>>

\* main: save_to_json, inside try/except in google_dork_cli.py only
SaveJson ==
    /\ pc = "save_json"
    /\ \E written \in BOOLEAN :
        /\ did' = did \cup {"json_attempt"} \cup (IF written THEN {"json"} ELSE {})
        /\ pc' = IF written \/ client = "basic" THEN "done" ELSE "save_raised"
    /\ UNCHANGED <<otherVars, proxyVars, cacheVars, client, engine, bing_api_key, brave_api_key,
                   searxng_endpoint, use_cache, delay, queries, qi, ret, all_results,
                   events, trace>>

Next ==
    \/ MainConfigCheck
    \/ Construct
    \/ BeginSearchAdvanced
    \/ BeginSearchBasic
    \/ Sleep
    \/ DispatchAdvanced
    \/ Request
    \/ Store
    \/ Assign
    \/ Return
    \/ SaveCsv
    \/ SaveJson

Spec == Init /\ [][Next]_vars

----------------------------------------------------------------------------
(* SpecAdapter: one adapter of either client on one response body *)

E_ORG == <<"e", ".", "o", "r", "g">>

\* URLs a candidate may carry: a plain one; none; a relative one; one on the
\* engine's own host; one that names google.com in its query only; an
\* unparsable one; text that starts with http and is no URL; another scheme
UrlPool ==
    {URL_A,
     <<>>,
     <<"/", "u", "r", "l", "?", "q", "=", "x">>,
     HTTPS \o <<"w", "w", "w", ".">> \o GOOGLE_COM \o <<"/", "x">>,
     HTTP \o E_ORG \o <<"/", "?">> \o GOOGLE_COM,
     URL_BAD,
     HTTP_PREFIX \o <<"x">>,
     <<"f", "t", "p", ":", "/", "/">> \o E_ORG \o <<"/", "f">>}

CandidatePool ==
    {Item(TRUE, TRUE, TRUE, url) : url \in UrlPool}
    \cup {ItemNotDict, Item(TRUE, FALSE, TRUE, URL_A), Item(TRUE, TRUE, FALSE, <<>>)}

CandidateLists == SeqsOf(CandidatePool, 0, MaxItems)

\* a client with its credentials in place, about to parse a response body
InitAdapter ==
    /\ client \in Clients
    /\ engine \in EnginesOf(client)
    /\ candidates \in CandidateLists
    /\ pc = "adapter_called"
    /\ ret = <<>>
    /\ events = <<>>
    /\ bing_api_key = "secret"
    /\ brave_api_key = "secret"
    /\ searxng_endpoint = DEFAULT_SEARXNG_ENDPOINT
    /\ use_cache = FALSE
    /\ delay = 0
    /\ queries = <<"q1">>
    /\ qi = 1
    /\ all_results = <<>>
    /\ trace = <<>>
    /\ did = {}
    /\ ProxyIdle
    /\ CacheIdle
    /\ ConfigIdle
    /\ OutputIdle

\* the adapter from response.json() / BeautifulSoup on: the loop over the
\* candidates, the except clause, the return
AdapterCall ==
    /\ pc = "adapter_called"
    /\ \E json_is_request_exc \in BOOLEAN :
        LET r == RunAdapter(client, engine, [kind |-> "ok", items |-> candidates],
                            json_is_request_exc)
        IN /\ ret' = r.results
           /\ events' = <<Event("request", 0, r.exc)>>
           /\ pc' = IF r.raised THEN "adapter_raised" ELSE "adapter_returned"
    /\ UNCHANGED <<proxyVars, cacheVars, otherVars, client, engine, bing_api_key,
                   brave_api_key, searxng_endpoint, use_cache, delay, queries, qi,
                   all_results, trace, did>>

NextAdapter == AdapterCall

SpecAdapter == InitAdapter /\ [][NextAdapter]_vars

----------------------------------------------------------------------------
(* SpecConfig: resolve_bing_config, resolve_brave_config and
   resolve_searxng_config on one environment and one config.json *)

DEFAULT_BING_ENDPOINT == "https://api.bing.microsoft.com/v7.0/search"
DEFAULT_BRAVE_ENDPOINT == "https://api.search.brave.com/res/v1/web/search"

\* what os.getenv returns for the backend's two variables: None when unset,
\* the empty string, a value
EnvKeyVals == {NoneStr, "", "env-key"}
EnvEndpointVals == {NoneStr, "", "http://env.local"}

\* the backends each program resolves
BackendsOf(c) == IF c = "basic" THEN {"bing", "searxng"} ELSE {"bing", "brave", "searxng"}

DefaultEndpoint(backend) ==
    CASE backend = "bing" -> DEFAULT_BING_ENDPOINT
      [] backend = "brave" -> DEFAULT_BRAVE_ENDPOINT
      [] backend = "searxng" -> DEFAULT_SEARXNG_ENDPOINT

\* a resolver that reads config.json before the environment
ResolveConfigFirst(backend, env, cfg) ==
    [backend |-> backend,
     api_key |-> ResolveApiKey(cfg.api_key, env.api_key),
     endpoint |-> ResolveEndpoint(cfg.endpoint, env.endpoint, DefaultEndpoint(backend))]

\* resolve_<backend>_config: the dict returned; env and cfg hold the
\* backend's own two environment variables and config.json values
ResolveConfig(backend, env, cfg) ==
    [backend |-> backend,
     api_key |-> ResolveApiKey(env.api_key, cfg.api_key),
     endpoint |-> ResolveEndpoint(env.endpoint, cfg.endpoint, DefaultEndpoint(backend))]

\* the process environment and config.json as main finds them; the values
\* stand for those of whichever backend is resolved
InitConfig ==
    /\ client \in Clients
    /\ environ \in [api_key : EnvKeyVals, endpoint : EnvEndpointVals]
    /\ config_file \in [api_key : KeyVals, endpoint : EndpointVals]
    /\ resolved = <<>>
    /\ client_endpoint = <<>>
    /\ pc = "resolve"
    /\ engine = "google"
    /\ bing_api_key = NoneStr
    /\ brave_api_key = NoneStr
    /\ searxng_endpoint = DEFAULT_SEARXNG_ENDPOINT
    /\ use_cache = FALSE
    /\ delay = 0
    /\ queries = <<>>
    /\ qi = 0
    /\ ret = <<>>
    /\ all_results = <<>>
    /\ events = <<>>
    /\ trace = <<>>
    /\ did = {}
    /\ ProxyIdle
    /\ CacheIdle
    /\ AdapterIdle
    /\ OutputIdle

\* main calls one of its resolvers
Resolve ==
    /\ pc = "resolve"
    /\ \E backend \in BackendsOf(client) :
          resolved' = ResolveConfig(backend, environ, config_file)
    /\ pc' = "resolved"
    /\ UNCHANGED <<proxyVars, cacheVars, adapterVars, outVars, environ, config_file,
                   client_endpoint, client, engine, bing_api_key, brave_api_key,
                   searxng_endpoint, use_cache, delay, queries, qi, ret, all_results,
                   events, trace, did>>

\* __init__: self.<backend>_endpoint = <backend>_endpoint or DEFAULT_<BACKEND>_ENDPOINT
ClientEndpoint(backend, endpoint) ==
    [backend |-> backend,
     endpoint |-> InitEndpoint(endpoint, DefaultEndpoint(backend))]

\* main builds the client with the endpoint of the dict its resolver returned
BuildFromResolved ==
    /\ pc = "resolved"
    /\ client_endpoint' = ClientEndpoint(resolved.backend, resolved.endpoint)
    /\ pc' = "built"
    /\ UNCHANGED <<proxyVars, cacheVars, adapterVars, outVars, environ, config_file,
                   resolved, client, engine, bing_api_key, brave_api_key,
                   searxng_endpoint, use_cache, delay, queries, qi, ret, all_results,
                   events, trace, did>>

\* a caller of the class builds the client with an endpoint argument of its
\* own: None (the default of the parameter), the empty string, a value
BuildDirect ==
    /\ pc = "resolve"
    /\ \E backend \in BackendsOf(client), endpoint \in EndpointVals :
          client_endpoint' = ClientEndpoint(backend, endpoint)
    /\ pc' = "built_direct"
    /\ UNCHANGED <<proxyVars, cacheVars, adapterVars, outVars, environ, config_file,
                   resolved, client, engine, bing_api_key, brave_api_key,
                   searxng_endpoint, use_cache, delay, queries, qi, ret, all_results,
                   events, trace, did>>

NextConfig == Resolve \/ BuildFromResolved \/ BuildDirect

SpecConfig == InitConfig /\ [][NextConfig]_vars

----------------------------------------------------------------------------
(* SpecNames: the output files of successive runs of main with one prefix *)

MaxRuns == 2         \* runs of main followed

\* --output, at its default
OUTPUT == <<"r", "e", "s", "u", "l", "t", "s">>

DigitChars == <<"0", "1", "2", "3", "4", "5", "6", "7", "8", "9">>

\* "%02d"
Pad2(n) == <<DigitChars[(n \div 10) + 1], DigitChars[(n % 10) + 1]>>

\* a stamp without the seconds
StrftimeMinutes(t) ==
    <<"2", "0", "2", "6", "1", "1">> \o Pad2(1 + (t \div 86400)) \o <<"_">>
        \o Pad2((t \div 3600) % 24) \o Pad2((t \div 60) % 60)

\* datetime.now().strftime("%Y%m%d_%H%M%S"), for the local clock reading of t
\* seconds after 2026-11-01 00:00:00, within that month
Strftime(t) ==
    <<"2", "0", "2", "6", "1", "1">> \o Pad2(1 + (t \div 86400)) \o <<"_">>
        \o Pad2((t \div 3600) % 24) \o Pad2((t \div 60) % 60) \o Pad2(t % 60)

CSV_EXT == <<".", "c", "s", "v">>
JSON_EXT == <<".", "j", "s", "o", "n">>

\* f'{output}_{stamp}.csv' and f'{output}_{stamp}.json'
FileName(output, t, ext) == output \o <<"_">> \o Strftime(t) \o ext

\* seconds the local clock may advance by between two steps
ClockSteps == {1, 60, 3600, 86400}

\* a file a writer of run number `run` has written, the moment its name was
\* formed, and its content where that is followed
Written(run, name, t, content) ==
    [run |-> run, name |-> name, at |-> t, content |-> content]

InitNames ==
    /\ client \in Clients
    /\ pc = "names_idle"
    /\ runs = 0
    /\ out_dir = <<>>
    /\ now = 0
    /\ ticks = 0
    /\ file_lines = <<>>
    /\ target = None
    /\ engine = "google"
    /\ bing_api_key = NoneStr
    /\ brave_api_key = NoneStr
    /\ searxng_endpoint = DEFAULT_SEARXNG_ENDPOINT
    /\ use_cache = FALSE
    /\ delay = 0
    /\ queries = <<>>
    /\ qi = 0
    /\ ret = <<>>
    /\ all_results = <<>>
    /\ events = <<>>
    /\ trace = <<>>
    /\ did = {}
    /\ cache = [f \in CacheFiles |-> AbsentFile]
    /\ n_sets = 0
    /\ last_set = [q \in QuerySet |-> NoSet]
    /\ last_get = NoGet
    /\ ProxyIdle
    /\ AdapterIdle
    /\ ConfigIdle

\* a run of main gets as far as its "Save files" block
RunStart ==
    /\ pc = "names_idle"
    /\ runs < MaxRuns
    /\ runs' = runs + 1
    /\ pc' = "run_csv"
    /\ UNCHANGED <<proxyVars, cacheVars, adapterVars, configVars, file_lines, target,
                   out_dir, client, engine, bing_api_key, brave_api_key,
                   searxng_endpoint, use_cache, delay, queries, qi, ret, all_results,
                   events, trace, did>>

\* the local clock moves on
ClockAdvance ==
    /\ ticks < MaxTicks
    /\ ticks' = ticks + 1
    /\ \E d \in ClockSteps : now' = now + d
    /\ UNCHANGED <<proxyVars, cache, n_sets, last_set, last_get, otherVars, runVars>>

\* main: the CSV name is formed and save_to_csv opens it; when that fails the
\* run goes on to the JSON file in google_dork_cli.py and ends in advanced.py
RunCsv ==
    /\ pc = "run_csv"
    /\ \E opened \in BOOLEAN :
        /\ out_dir' = IF opened
                      THEN Append(out_dir, Written(runs, FileName(OUTPUT, now, CSV_EXT), now, <<>>))
                      ELSE out_dir
        /\ pc' = IF opened \/ client = "basic" THEN "run_json" ELSE "names_idle"
    /\ UNCHANGED <<proxyVars, cacheVars, adapterVars, configVars, file_lines, target,
                   runs, client, engine, bing_api_key, brave_api_key,
                   searxng_endpoint, use_cache, delay, queries, qi, ret, all_results,
                   events, trace, did>>

\* main: the JSON name is formed and save_to_json opens it
RunJson ==
    /\ pc = "run_json"
    /\ \E opened \in BOOLEAN :
        out_dir' = IF opened
                   THEN Append(out_dir, Written(runs, FileName(OUTPUT, now, JSON_EXT), now, <<>>))
                   ELSE out_dir
    /\ pc' = "names_idle"
    /\ UNCHANGED <<proxyVars, cacheVars, adapterVars, configVars, file_lines, target,
                   runs, client, engine, bing_api_key, brave_api_key,
                   searxng_endpoint, use_cache, delay, queries, qi, ret, all_results,
                   events, trace, did>>

NextNames == RunStart \/ ClockAdvance \/ RunCsv \/ RunJson

SpecNames == InitNames /\ [][NextNames]_vars

----------------------------------------------------------------------------
(* SpecOutput: one run of main, from its query file to its output files, on a
   backend that answers every query with one fixed result *)

\* lines of the query file, as iterating the file yields them: blank, padded,
\* plain
DorkLinePool == {<<"\n">>, <<" ", "a", "\n">>, <<"a", "\n">>, <<"b", "\n">>}

DorkFiles == SeqsOf(DorkLinePool, 0, MaxFileLines)

\* --target: not given, given empty, given
TargetVals == {None, Some(<<>>), Some(<<"t", ".", "i", "o">>)}

\* a prefix with no space after the target
ShapeQueryNoSpace(t, query) == <<"s", "i", "t", "e", ":">> \o t \o query

\* f'site:{target} {query}'
ShapeQuery(t, query) == <<"s", "i", "t", "e", ":">> \o t \o <<" ">> \o query

\* main: the queries of the file, then `if target:` the prefix on each
EffectiveQueries(lines, t) ==
    LET loaded == StrippedLines(lines) IN
    IF t.some /\ t.val # <<>>
    THEN [k \in 1..Len(loaded) |-> ShapeQuery(t.val, loaded[k])]
    ELSE loaded

\* the one result the backend gives for any query
StubResults(c) == <<ResultOf(c, ItemOk)>>

\* save_to_csv: the header, then one row per item of each entry of the dict,
\* in the dict's order
CsvHeader(c) ==
    IF c = "advanced" THEN <<"Query", "Title", "URL", "Domain", "Snippet">>
    ELSE <<"Query", "Title", "URL", "Snippet">>

CsvRow(c, query, item) ==
    IF c = "advanced" THEN <<query, item.title, item.url, item.domain, item.snippet>>
    ELSE <<query, item.title, item.url, item.snippet>>

RECURSIVE CsvRows(_, _)
CsvRows(c, d) ==
    IF d = <<>> THEN <<>>
    ELSE [k \in 1..Len(d[1][2]) |-> CsvRow(c, d[1][1], d[1][2][k])] \o CsvRows(c, Tail(d))

SaveToCsv(c, d) == <<CsvHeader(c)>> \o CsvRows(c, d)

\* save_to_json: json.dump of the dict, one member per key
SaveToJson(d) == [k \in 1..Len(d) |-> <<d[k][1], JsonDump(d[k][2])>>]

InitOutput ==
    /\ client \in Clients
    /\ file_lines \in DorkFiles
    /\ target \in TargetVals
    /\ pc = "load"
    /\ queries = <<>>
    /\ qi = 0
    /\ all_results = <<>>
    /\ out_dir = <<>>
    /\ runs = 1
    /\ now = 0
    /\ ticks = 0
    /\ engine = "google"
    /\ bing_api_key = NoneStr
    /\ brave_api_key = NoneStr
    /\ searxng_endpoint = DEFAULT_SEARXNG_ENDPOINT
    /\ use_cache = FALSE
    /\ delay = 0
    /\ ret = <<>>
    /\ events = <<>>
    /\ trace = <<>>
    /\ did = {}
    /\ cache = [f \in CacheFiles |-> AbsentFile]
    /\ n_sets = 0
    /\ last_set = [q \in QuerySet |-> NoSet]
    /\ last_get = NoGet
    /\ ProxyIdle
    /\ AdapterIdle
    /\ ConfigIdle

\* main: the file is read, blank lines dropped, the target prefixed; no
\* queries ends the run
LoadQueries ==
    /\ pc = "load"
    /\ queries' = EffectiveQueries(file_lines, target)
    /\ qi' = 1
    /\ pc' = IF StrippedLines(file_lines) = <<>> THEN "no_queries" ELSE "search"
    /\ UNCHANGED <<proxyVars, cacheVars, adapterVars, configVars, file_lines, target,
                   out_dir, runs, client, engine, bing_api_key, brave_api_key,
                   searxng_endpoint, use_cache, delay, ret, all_results, events,
                   trace, did>>

\* search_multiple: all_results[query] = self.search(query), with caching
\* disabled and the backend's one result
SearchOne ==
    /\ pc = "search"
    /\ all_results' = DictSet(all_results, queries[qi], StubResults(client))
    /\ qi' = qi + 1
    /\ pc' = IF qi = Len(queries) THEN "write_csv" ELSE "search"
    /\ UNCHANGED <<proxyVars, cacheVars, adapterVars, configVars, file_lines, target,
                   out_dir, runs, client, engine, bing_api_key, brave_api_key,
                   searxng_endpoint, use_cache, delay, queries, ret, events, trace,
                   did>>

\* main: save_to_csv; a failed write is logged in google_dork_cli.py and
\* ends the run in advanced.py
WriteCsv ==
    /\ pc = "write_csv"
    /\ \E written_ok \in BOOLEAN :
        /\ out_dir' = IF written_ok
                      THEN Append(out_dir, Written(runs, FileName(OUTPUT, now, CSV_EXT), now,
                                                   SaveToCsv(client, all_results)))
                      ELSE out_dir
        /\ pc' = IF written_ok \/ client = "basic" THEN "write_json" ELSE "write_raised"
    /\ UNCHANGED <<proxyVars, cacheVars, adapterVars, configVars, file_lines, target,
                   runs, client, engine, bing_api_key, brave_api_key,
                   searxng_endpoint, use_cache, delay, queries, qi, ret, all_results,
                   events, trace, did>>

\* main: save_to_json
WriteJson ==
    /\ pc = "write_json"
    /\ \E written_ok \in BOOLEAN :
        /\ out_dir' = IF written_ok
                      THEN Append(out_dir, Written(runs, FileName(OUTPUT, now, JSON_EXT), now,
                                                   SaveToJson(all_results)))
                      ELSE out_dir
        /\ pc' = IF written_ok \/ client = "basic" THEN "written" ELSE "write_raised"
    /\ UNCHANGED <<proxyVars, cacheVars, adapterVars, configVars, file_lines, target,
                   runs, client, engine, bing_api_key, brave_api_key,
                   searxng_endpoint, use_cache, delay, queries, qi, ret, all_results,
                   events, trace, did>>

NextOutput == LoadQueries \/ SearchOne \/ WriteCsv \/ WriteJson

SpecOutput == InitOutput /\ [][NextOutput]_vars

----------------------------------------------------------------------------
(* Claims about ProxyRotation, under SpecProxy *)

\* C4: strict round-robin.  For a rotator whose list was not replaced after a
\* call, the k-th call (k = 0, 1, ...) returned the normalized endpoint at
\* position k mod N of the list; with an empty list every call returned None
\* and the cursor stayed at 0.
C4_RoundRobin ==
    ~list_changed =>
        IF proxy_list = <<>>
        THEN /\ current_index = 0
             /\ \A k \in 1..Len(proxy_log) : proxy_log[k] = NoProxy
        ELSE \A k \in 1..Len(proxy_log) :
                proxy_log[k] =
                    ProxyDict(ParseProxy(proxy_list[((k - 1) % Len(proxy_list)) + 1]))

\* a two-element list called three times: the third call repeats the first
C4_Witness ==
    /\ ~list_changed
    /\ Len(proxy_list) = 2
    /\ Len(proxy_log) = 3
    /\ proxy_log[1] = ProxyDict(HTTP \o <<"b">>)
    /\ proxy_log[2] = ProxyDict(SOCKS5 \o <<"c">>)
    /\ proxy_log[3] = proxy_log[1]

----------------------------------------------------------------------------
(* Claims about CacheManager, under SpecCache *)

\* the file of the query the latest get asked for; no set has written it since
FileOfLastGet == cache[GetCacheFile(last_get.query)]

\* C5 as stated: set(q, r) followed by get(q) within the TTL window, with no
\* set for q in between, returns exactly r, whatever happened to the write
\* and to the read.
C5_RoundTripAlways ==
    last_get.called =>
        LET s == last_set[last_get.query] IN
        (s.called /\ last_get.at - s.at < TTL) => last_get.out = Some(s.results)

\* C5 as amended: set(q, r) whose write succeeded, followed within the TTL
\* window by a get(q) whose read succeeded, with no set for q in between,
\* returns exactly r (the empty list included).
C5_RoundTrip ==
    last_get.called =>
        LET s == last_set[last_get.query] IN
        (/\ s.called
         /\ s.outcome = "ok"
         /\ last_get.read_ok
         /\ last_get.at - s.at < TTL) => last_get.out = Some(s.results)

\* the empty list stored, time passed, the other query stored, and the empty
\* list read back
C5_Witness ==
    /\ last_get.called
    /\ last_get.query = "q1"
    /\ last_get.read_ok
    /\ last_set["q1"].called
    /\ last_set["q1"].outcome = "ok"
    /\ last_set["q1"].results = <<>>
    /\ last_set["q2"].called
    /\ last_get.at - last_set["q1"].at = TTL - 1
    /\ last_get.out = Some(<<>>)

\* C6 as stated: get(q) returns the stored results if and only if an entry
\* file for q exists and is younger than TTL seconds, and get leaves the file
\* alone.
C6_TtlIffEntry ==
    last_get.called =>
        /\ last_get.out.some <=>
              (/\ FileOfLastGet.kind = "entry"
               /\ last_get.at - FileOfLastGet.timestamp < TTL)
        /\ last_get.out.some => JsonDump(last_get.out.val) = FileOfLastGet.results
        /\ ~last_get.modified

\* C6 as amended: get(q) returns the stored results if and only if an entry
\* file for q exists, is read and parsed without error, and is younger than
\* TTL seconds (at exactly TTL seconds it is a miss); get never deletes or
\* modifies the file.
C6_Ttl ==
    last_get.called =>
        /\ last_get.out.some <=>
              (/\ FileOfLastGet.kind = "entry"
               /\ last_get.read_ok
               /\ last_get.at - FileOfLastGet.timestamp < TTL)
        /\ last_get.out.some => JsonDump(last_get.out.val) = FileOfLastGet.results
        /\ ~last_get.modified

\* a readable entry aged exactly TTL seconds is a miss and is still there
C6_Witness ==
    /\ last_get.called
    /\ last_get.read_ok
    /\ FileOfLastGet.kind = "entry"
    /\ FileOfLastGet.results # <<>>
    /\ last_get.at - FileOfLastGet.timestamp = TTL
    /\ last_get.out = None

----------------------------------------------------------------------------
(* Claims about a run, under Spec *)

Range(f) == {f[k] : k \in DOMAIN f}

EventsOf(type) == {k \in 1..Len(events) : events[k].type = type}

\* search_multiple has returned its mapping
Returned == pc \in {"returned", "save_json", "save_raised", "done"}

\* the API key of the selected key-requiring backend is None or empty
KeyMissingForEngine ==
    \/ engine = "bing" /\ bing_api_key \in {NoneStr, ""}
    \/ client = "advanced" /\ engine = "brave" /\ brave_api_key \in {NoneStr, ""}

\* C1: with caching enabled, a query that has a fresh, readable cache entry is
\* answered from it, whatever list it stores: search goes straight to its
\* return with the stored list, with no sleep, no adapter and no request.
C1_FreshEntryShortCircuits ==
    (/\ client = "advanced"
     /\ use_cache
     /\ events # <<>>
     /\ events[1].type = "cache_get"
     /\ events[1].err = "fresh") =>
        /\ Len(events) = 1
        /\ pc = "assign"
        /\ ret = JsonLoad(cache[GetCacheFile(Query)].results)

\* C2: no adapter raises, and an adapter in which a network, HTTP-status,
\* parsing or API-shape error occurred returns the empty list.
C2_AdaptersNeverRaise ==
    /\ pc # "search_raised"
    /\ \A k \in 1..Len(events) :
          (events[k].type \in {"request", "failed"} /\ events[k].err # "none")
              => ret = <<>>

\* C3: search_multiple runs to the end of the list whatever fails for a
\* query, and the mapping it returns has an entry for every input query.
C3_BatchResilient ==
    /\ pc # "search_raised"
    /\ Returned => DictKeys(all_results) = Range(queries)

\* C7: every network request is preceded, within the processing of its query,
\* by exactly one sleep of configured_delay to configured_delay + 1 seconds,
\* and a query issues at most one request.
C7_SleepBeforeRequest ==
    \A k \in EventsOf("request") :
        /\ EventsOf("request") = {k}
        /\ Cardinality(EventsOf("sleep")) = 1
        /\ \A j \in EventsOf("sleep") :
              /\ j < k
              /\ delay <= events[j].ms
              /\ events[j].ms <= delay + JitterMaxMs

\* the second query of a basic SearXNG batch has slept and issued its request
C7_Witness ==
    /\ client = "basic"
    /\ engine = "searxng"
    /\ qi = 2
    /\ EventsOf("request") # {}
    /\ "request" \in did

\* C8: a client whose Bing (Brave) API key is None or empty never issues a
\* network request through _search_bing (_search_brave), and every call of
\* that adapter returns the empty list.
C8_MissingKeyShortCircuit ==
    KeyMissingForEngine =>
        /\ "request" \notin did
        /\ EventsOf("request") = {}
        /\ (EventsOf("adapter") # {} /\ pc \in {"store", "assign"}) => ret = <<>>

\* _search_brave was called with an empty key and has returned
C8_Witness ==
    /\ client = "advanced"
    /\ engine = "brave"
    /\ brave_api_key = ""
    /\ pc = "store"
    /\ EventsOf("adapter") # {}
    /\ qi = 2

\* the last position of the list that holds q
LastOccurrence(q) ==
    CHOOSE k \in 1..Len(queries) :
        /\ queries[k] = q
        /\ \A j \in (k + 1)..Len(queries) : queries[j] # q

\* C9: the mapping search_multiple returns has exactly one entry per distinct
\* query; every occurrence was processed, in input order; and the value of a
\* query is what search returned for its last occurrence.
C9_BatchAggregation ==
    Returned =>
        /\ Len(trace) = Len(queries)
        /\ \A k \in 1..Len(queries) : trace[k][1] = queries[k]
        /\ DictKeys(all_results) = Range(queries)
        /\ Len(all_results) = Cardinality(Range(queries))
        /\ \A q \in Range(queries) :
              DictGet(all_results, q) = trace[LastOccurrence(q)][2]

\* the same query twice with two different results: one entry, the later one
C9_Witness ==
    /\ pc = "returned"
    /\ queries = <<"q1", "q1">>
    /\ trace[1][2] # <<>>
    /\ trace[2][2] = <<>>
    /\ all_results = <<<<"q1", <<>>>>>>

\* the credential main requires for the selected engine is absent
CredentialMissing ==
    \/ KeyMissingForEngine
    \/ engine = "searxng" /\ searxng_endpoint \in {NoneStr, ""}

\* C10: main never gets past its configuration checks when the credential of
\* the selected engine is absent; it has then returned before the client is
\* built, and the run has slept, requested, touched the cache and written
\* nothing.
C10_ConfigErrorsFatal ==
    /\ pc = "main_setup" => ~CredentialMissing
    /\ (pc = "start" /\ CredentialMissing) => ~ENABLED (MainConfigCheck /\ pc' # "exit_config")
    /\ pc = "exit_config" =>
          /\ did = {}
          /\ events = <<>>
          /\ trace = <<>>
          /\ all_results = <<>>
          /\ proxy_log = <<>>
          /\ cache \in StartDirs
          /\ ~ENABLED Next

\* main has ended on a missing Brave key
C10_Witness ==
    /\ pc = "exit_config"
    /\ client = "advanced"
    /\ engine = "brave"
    /\ brave_api_key = NoneStr

\* main has ended, by returning or by an exception out of a writer
RunEnded == pc \in {"save_raised", "done"}

\* C11: when the CSV write fails, the JSON write is still attempted: a run
\* that has ended after a failed CSV write has attempted the JSON write.
C11_WritersIndependent ==
    (RunEnded /\ "csv_attempt" \in did /\ "csv" \notin did) => "json_attempt" \in did

\* the processing of the current query began with a cache read that failed
CacheReadFailed ==
    /\ events # <<>>
    /\ events[1].type = "cache_get"
    /\ events[1].err = "error"

\* C14: cache I/O errors never leave search.  A cache file that cannot be read
\* or parsed is a miss: the query goes on to the sleep and the adapter.  A
\* cache write that fails ends in search's return, with the list the adapter
\* returned, and that list is what search_multiple records.
C14_CacheErrorsContained ==
    /\ [](CacheReadFailed =>
            /\ pc \in {"sleep", "dispatch", "request", "store", "assign"}
            /\ Len(events) >= 2 => events[2].type = "sleep"
            /\ pc = "assign" => EventsOf("adapter") # {})
    /\ [][(pc = "store" /\ client = "advanced") =>
            /\ pc' = "assign"
            /\ ret' = ret]_vars
    /\ [][pc = "assign" => trace' = Append(trace, <<Query, ret>>)]_vars

\* a query whose cache file could not be read was fetched, the write of the
\* fetched list failed half-way, and search is returning that list
C14_Witness ==
    /\ CacheReadFailed
    /\ pc = "assign"
    /\ events[Len(events)] = Event("cache_set", 0, "partial")
    /\ EventsOf("request") # {}
    /\ ret # <<>>

\* the adapter the claim names for an engine
C19_AdapterFor(e) ==
    CASE e = "bing" -> "_search_bing"
      [] e = "brave" -> "_search_brave"
      [] e = "duckduckgo" -> "_search_duckduckgo"
      [] e = "searxng" -> "_search_searxng"
      [] OTHER -> "_search_google"

\* the processing of the current query began with a cache read that found no
\* fresh entry
CacheMissed ==
    /\ client = "advanced"
    /\ use_cache
    /\ events # <<>>
    /\ events[1].type = "cache_get"
    /\ events[1].err # "fresh"

\* C19: on a cache miss with caching enabled, search of the advanced client
\* sleeps once, then calls the one adapter of the configured engine (the
\* google adapter for an engine name that is none of bing, brave, duckduckgo,
\* searxng), then stores the fetched list under the query, empty or not,
\* then returns; the list stored is the list returned.
C19_MissStepOrder ==
    CacheMissed =>
        /\ Len(events) >= 2 => events[2].type = "sleep"
        /\ Len(events) >= 3 => events[3] = Event("adapter", 0, C19_AdapterFor(engine))
        /\ \A k \in 4..Len(events) : events[k].type \in {"request", "cache_set"}
        /\ Cardinality(EventsOf("request")) <= 1
        /\ \A k \in EventsOf("cache_set") : k = Len(events) /\ pc = "assign"
        /\ pc = "assign" =>
              /\ Cardinality(EventsOf("sleep")) = 1
              /\ Cardinality(EventsOf("adapter")) = 1
              /\ Cardinality(EventsOf("cache_set")) = 1
              /\ events[Len(events)].err = "ok" =>
                    cache[GetCacheFile(Query)] = EntryFile(Query, ret, now)

\* an engine name that is none of the five: the google adapter fetched an
\* empty list, which was stored and is being returned
C19_Witness ==
    /\ CacheMissed
    /\ engine = "yahoo"
    /\ pc = "assign"
    /\ Len(events) = 5
    /\ events[3].err = "_search_google"
    /\ events[4].type = "request"
    /\ events[5] = Event("cache_set", 0, "ok")
    /\ ret = <<>>
    /\ cache[GetCacheFile(Query)].kind = "entry"
    /\ cache[GetCacheFile(Query)].results = <<>>

----------------------------------------------------------------------------
(* Claims about one adapter call, under SpecAdapter *)

\* an absolute HTTP(S) URL as far as its start shows
HasHttpScheme(url) == StartsWith(url, HTTP) \/ StartsWith(url, HTTPS)

\* C12: every record an adapter returns has a url that is non-empty and starts
\* with an HTTP(S) scheme: candidates with an empty or malformed URL are
\* dropped, by the JSON-API adapters as by the HTML ones.
C12_UrlInvariant ==
    pc = "adapter_returned" =>
        \A k \in 1..Len(ret) : ret[k].url # <<>> /\ HasHttpScheme(ret[k].url)

\* the host is the domain or a subdomain of it
HostMatches(host, domain) ==
    \/ host = domain
    \/ /\ Len(host) > Len(domain)
       /\ SubSeq(host, Len(host) - Len(domain), Len(host)) = <<".">> \o domain

UrlsOf(records) == [k \in 1..Len(records) |-> records[k].url]

\* the two exclusions of the google adapter as the claim states them
C13_Excluded(item) ==
    \/ HostMatches(Urlparse(item.url).netloc, GOOGLE_COM)
    \/ ~HasHttpScheme(item.url)

C13_Kept(item) == item.has_title /\ item.has_link /\ ~C13_Excluded(item)

\* C13: the google adapter excludes a candidate whose URL host is the engine's
\* own domain, excludes a candidate whose URL does not start with an HTTP
\* scheme, and keeps every other candidate that has a title and a link: what
\* it returns is, in order, the candidates neither exclusion applies to.
C13_GoogleFilter ==
    (/\ pc = "adapter_returned"
     /\ AdapterOf(client, engine) = "_search_google"
     /\ \A k \in 1..Len(candidates) : ~Urlparse(candidates[k].url).raised) =>
        UrlsOf(ret) = UrlsOf(SelectSeq(candidates, C13_Kept))

\* the adapter's own test of a candidate, the URL parsing aside
PassesFilter(c, e, item) ==
    CASE AdapterOf(c, e) = "_search_google" -> GoogleKeeps(item)
      [] AdapterOf(c, e) = "_search_duckduckgo" -> DuckDuckGoKeeps(item)
      [] OTHER -> item.object

\* the host component of a URL, the empty string when it cannot be parsed
HostOrEmpty(url) == IF Urlparse(url).raised THEN <<>> ELSE Urlparse(url).netloc

\* the candidates the adapter turns into results, each with its domain
ResultsWithDomains(c, e, items) ==
    LET Pass(item) == PassesFilter(c, e, item)
        kept == SelectSeq(items, Pass)
    IN [k \in 1..Len(kept) |->
           Result(ResultA.title, kept[k].url, ResultA.snippet, HostOrEmpty(kept[k].url))]

\* C18: domain derivation never fails.  On a response whose items are all
\* well-formed, an adapter of the advanced client returns one record for
\* every candidate that passes its filter, with domain the host component of
\* the candidate's URL, and domain "" when the URL cannot be parsed: no
\* exception, and no other item lost or skipped.
C18_DomainNeverFails ==
    (/\ pc \in {"adapter_returned", "adapter_raised"}
     /\ client = "advanced"
     /\ \A k \in 1..Len(candidates) : candidates[k].object) =>
        /\ pc = "adapter_returned"
        /\ events = <<Event("request", 0, "none")>>
        /\ ret = ResultsWithDomains(client, engine, candidates)

----------------------------------------------------------------------------
(* Claims about the output files of successive runs, under SpecNames *)

\* two files written by two different runs, the first by the earlier run
TwoRuns(i, j) ==
    /\ i \in 1..Len(out_dir)
    /\ j \in 1..Len(out_dir)
    /\ out_dir[i].run < out_dir[j].run

\* C15 as stated: the file a later run writes never has the name of a file an
\* earlier run with the same prefix wrote.
C15_NeverCollide ==
    \A i, j \in 1..Len(out_dir) :
        TwoRuns(i, j) => out_dir[i].name # out_dir[j].name

\* C15 as amended: the CSV (JSON) file of a later run has a name different
\* from the one an earlier run with the same prefix wrote exactly when the two
\* names were formed at different seconds of the local clock; formed within
\* the same second the two names are equal and the later run overwrites the
\* file.  A CSV name and a JSON name always differ.
C15_DistinctSeconds ==
    \A i, j \in 1..Len(out_dir) :
        TwoRuns(i, j) =>
            (out_dir[i].name = out_dir[j].name <=>
                /\ out_dir[i].at = out_dir[j].at
                /\ (out_dir[i].name = FileName(OUTPUT, out_dir[i].at, CSV_EXT)
                    <=> out_dir[j].name = FileName(OUTPUT, out_dir[j].at, CSV_EXT)))

\* two runs, the second one second after the first within the same minute:
\* four files with four names
C15_Witness ==
    /\ Len(out_dir) = 4
    /\ out_dir[1].run = 1
    /\ out_dir[3].run = 2
    /\ out_dir[1].at = 60
    /\ out_dir[3].at = 61
    /\ out_dir[1].name # out_dir[3].name
    /\ out_dir[2].name # out_dir[4].name

----------------------------------------------------------------------------
(* Claims about the configuration resolvers, under SpecConfig *)

\* a value that is set: neither None nor the empty string
IsSet(v) == v \notin {NoneStr, ""}

\* C16: the resolved api_key is the environment variable when that is set,
\* otherwise the config-file value when that is present and non-empty,
\* otherwise absent (None or empty); the resolved endpoint is the environment
\* variable when set, otherwise the config-file value when present and
\* non-empty, otherwise the backend's hardcoded default.
C16_Precedence ==
    pc = "resolved" =>
        /\ IF IsSet(environ.api_key) THEN resolved.api_key = environ.api_key
           ELSE IF IsSet(config_file.api_key) THEN resolved.api_key = config_file.api_key
           ELSE ~IsSet(resolved.api_key)
        /\ IF IsSet(environ.endpoint) THEN resolved.endpoint = environ.endpoint
           ELSE IF IsSet(config_file.endpoint)
                THEN resolved.endpoint = config_file.endpoint
           ELSE resolved.endpoint = DefaultEndpoint(resolved.backend)

\* Brave resolved with both keys set and the endpoint variable set but empty:
\* the key is the environment's, the endpoint config.json's
C16_Witness ==
    /\ pc = "resolved"
    /\ resolved.backend = "brave"
    /\ environ.api_key = "env-key"
    /\ config_file.api_key = "secret"
    /\ resolved.api_key = "env-key"
    /\ environ.endpoint = ""
    /\ resolved.endpoint = "http://searx.local"

\* C22: resolved endpoints are never empty.  For every combination of
\* environment variables and config-file values (unset, empty or set) each
\* resolver returns a non-empty endpoint, and the client constructor keeps it
\* non-empty (and makes an absent or empty argument of a direct caller the
\* default); consequently main's 'Missing SearXNG endpoint' test never
\* succeeds on a resolved dict and the missing-endpoint test at the top of
\* _search_searxng never succeeds on a constructed client.
C22_EndpointNeverEmpty ==
    /\ pc = "resolved" =>
          /\ Truthy(resolved.endpoint)
          /\ resolved.backend = "searxng" =>
                ~ConfigMissing(client, "searxng", resolved.api_key, resolved.api_key,
                               resolved.endpoint)
    /\ pc \in {"built", "built_direct"} =>
          /\ Truthy(client_endpoint.endpoint)
          /\ client_endpoint.backend = "searxng" =>
                ~AdapterShortCircuits("searxng", NoneStr, NoneStr,
                                      client_endpoint.endpoint)

\* SEARXNG_ENDPOINT set but empty and "endpoint": "" in config.json: the
\* client is built with the hardcoded default
C22_Witness ==
    /\ pc = "built"
    /\ environ.endpoint = ""
    /\ config_file.endpoint = ""
    /\ resolved.backend = "searxng"
    /\ resolved.endpoint = DEFAULT_SEARXNG_ENDPOINT
    /\ client_endpoint = [backend |-> "searxng", endpoint |-> DEFAULT_SEARXNG_ENDPOINT]

----------------------------------------------------------------------------
(* Claims about main's query shaping and output, under SpecOutput *)

NotBlank(line) == Strip(line) # <<>>

\* the input lines that are not blank, trimmed, in input order
TrimmedLines == [k \in 1..Len(SelectSeq(file_lines, NotBlank)) |->
                    Strip(SelectSeq(file_lines, NotBlank)[k])]

\* the files of the run, by extension
FilesWith(ext) ==
    {k \in 1..Len(out_dir) : out_dir[k].name = FileName(OUTPUT, out_dir[k].at, ext)}

\* blank lines are dropped, and with a target domain every effective query
\* is 'site:<target> ' and the trimmed line, without one the trimmed line, in
\* input order (an empty --target is no target domain)
QueriesShaped ==
    /\ Len(queries) = Len(TrimmedLines)
    /\ \A k \in 1..Len(queries) :
          queries[k] =
              IF target.some /\ target.val # <<>>
              THEN <<"s", "i", "t", "e", ":">> \o target.val \o <<" ">> \o TrimmedLines[k]
              ELSE TrimmedLines[k]

\* C17 as stated: main drops blank lines and shapes the queries; the CSV has
\* the header and one data row per effective query, and the JSON mapping has
\* the effective queries as keys, one member per query, each a one-element
\* array.
C17_OneRowPerQuery ==
    /\ pc # "load" => QueriesShaped
    /\ \A f \in FilesWith(CSV_EXT) :
          /\ out_dir[f].content[1] = CsvHeader(client)
          /\ Len(out_dir[f].content) = 1 + Len(queries)
    /\ \A f \in FilesWith(JSON_EXT) :
          /\ {out_dir[f].content[k][1] : k \in 1..Len(out_dir[f].content)} = Range(queries)
          /\ Len(out_dir[f].content) = Len(queries)
          /\ \A k \in 1..Len(out_dir[f].content) : Len(out_dir[f].content[k][2]) = 1

\* the distinct effective queries
DistinctQueries == Cardinality(Range(queries))

\* C17 as amended: main drops blank lines and shapes the queries; the CSV has
\* the header and one data row per distinct effective query, and the JSON
\* mapping has exactly the distinct effective queries as keys, each a
\* one-element array.
C17_OneRowPerDistinctQuery ==
    /\ pc # "load" => QueriesShaped
    /\ \A f \in FilesWith(CSV_EXT) :
          /\ out_dir[f].content[1] = CsvHeader(client)
          /\ Len(out_dir[f].content) = 1 + DistinctQueries
          /\ {out_dir[f].content[k][1] : k \in 2..Len(out_dir[f].content)} = Range(queries)
    /\ \A f \in FilesWith(JSON_EXT) :
          /\ {out_dir[f].content[k][1] : k \in 1..Len(out_dir[f].content)} = Range(queries)
          /\ Len(out_dir[f].content) = DistinctQueries
          /\ \A k \in 1..Len(out_dir[f].content) : Len(out_dir[f].content[k][2]) = 1

\* a blank line and two different dorks with a target: two shaped queries,
\* three CSV rows, two JSON members
C17_Witness ==
    /\ pc = "written"
    /\ target = Some(<<"t", ".", "i", "o">>)
    /\ file_lines = <<<<" ", "a", "\n">>, <<"b", "\n">>>>
    /\ queries = <<<<"s", "i", "t", "e", ":", "t", ".", "i", "o", " ", "a">>,
                   <<"s", "i", "t", "e", ":", "t", ".", "i", "o", " ", "b">>>>
    /\ Len(out_dir) = 2
    /\ Len(out_dir[1].content) = 3
    /\ Len(out_dir[2].content) = 2

----------------------------------------------------------------------------
(* A further claim about ProxyRotation, under SpecProxy *)

\* C20: the cursor stays in range.  Whenever proxy_list is non-empty,
\* 0 <= current_index < len(proxy_list), after any sequence of get_next_proxy
\* and load_from_file, and get_next_proxy never indexes outside the list.
C20_CursorInRange ==
    /\ proxy_list # <<>> => (0 <= current_index /\ current_index < Len(proxy_list))
    /\ \A k \in 1..Len(proxy_log) : proxy_log[k] # ProxyIndexError

----------------------------------------------------------------------------
(* A claim about the rotator inside a run, under Spec *)

\* the step hands a request to session.get
RequestIssued ==
    /\ Len(events') = Len(events) + 1
    /\ events'[Len(events')].type = "request"

\* search() returns the cached value
AnsweredFromCache == pc = "loop" /\ pc' = "assign" /\ client = "advanced"

\* the adapter returns [] before its try block
ShortCircuited ==
    /\ pc \in {"loop", "dispatch"}
    /\ Len(events') = Len(events) + 1
    /\ events'[Len(events')].type = "adapter"
    /\ pc' \in {"assign", "store"}

\* C21: the proxy cursor advances exactly once per network request.  In the
\* advanced client with a non-empty proxy list, a search that issues a network
\* request moves the cursor by exactly one position (modulo the length of the
\* list) and uses the proxy the cursor was at; a search answered from the
\* cache, a search short-circuited by a missing API key, and every other step
\* leave the cursor where it was; hence the i-th network request of a batch
\* (i = 0, 1, ...) uses proxy i mod N, whatever happened in between.
C21_CursorPerRequest ==
    /\ [][(client = "advanced" /\ proxy_list # <<>>) =>
            /\ RequestIssued =>
                  /\ current_index' = (current_index + 1) % Len(proxy_list)
                  /\ proxy_log' =
                        Append(proxy_log,
                               ProxyDict(ParseProxy(proxy_list[current_index + 1])))
            /\ AnsweredFromCache => current_index' = current_index
            /\ ShortCircuited => current_index' = current_index
            /\ ~RequestIssued =>
                  (current_index' = current_index /\ proxy_log' = proxy_log)]_vars
    /\ []((client = "advanced" /\ proxy_list # <<>>) =>
            /\ current_index = Len(proxy_log) % Len(proxy_list)
            /\ \A i \in 1..Len(proxy_log) :
                  proxy_log[i] =
                      ProxyDict(ParseProxy(proxy_list[((i - 1) % Len(proxy_list)) + 1])))

\* the second query of a batch is answered from the cache after the first
\* made one request through the first of two proxies: the cursor is still 1
C21_Witness ==
    /\ client = "advanced"
    /\ Len(proxy_list) = 2
    /\ qi = 2
    /\ pc = "assign"
    /\ events = <<Event("cache_get", 0, "fresh")>>
    /\ ret # <<>>
    /\ Len(proxy_log) = 1
    /\ proxy_log[1] = ProxyDict(ParseProxy(proxy_list[1]))
    /\ current_index = 1

====
